---- MODULE Spec2Model ----
(***************************************************************************)
(* Dictionary / ConstDictionary of realm-core (src/src/realm/dictionary.hpp *)
(* and dictionary.cpp): a per-object ordered map kept in two parallel       *)
(* trees, m_keys and m_values, anchored at child slots 2r and 2r+1 of the   *)
(* owning object's dictionary column.                                       *)
(*                                                                         *)
(* The allocator, the object accessor (Obj) and BPlusTree<Mixed> are used   *)
(* by the dictionary through their contracts only; their sources are not   *)
(* part of src/, so they are modelled from the specification (sections 2,  *)
(* 3, 5 and 6): node memory is a heap of cells addressed by references,     *)
(* committed cells are read-only and are cloned before a write, and the     *)
(* allocator carries a content version that is bumped whenever a           *)
(* transaction moves to a newer snapshot.                                  *)
(*                                                                         *)
(* Transaction a is the long-lived transaction of the accessors under      *)
(* study: it reads, advances, takes the write lock and commits, and its     *)
(* handles live across those boundaries.  Transaction b is another writer,  *)
(* in a process of its own: it opens a write transaction on the last        *)
(* commit, writes through a handle scoped to that transaction, and commits. *)
(* Snapshot isolation hides b's uncommitted state from a, so one step       *)
(* stands for the whole of b's transaction.  Free-standing dictionaries     *)
(* (view "u") live in the default allocator.                                *)
(*                                                                         *)
(* Spec follows one accessor at a time and the other writer; SpecCopy       *)
(* follows an accessor and a copy of it; SpecAnchor an accessor that is     *)
(* moved and copied; SpecAttach an accessor whose trees are created and     *)
(* destroyed and that is asked whether it is attached.                      *)
(*                                                                         *)
(* The object tree (ClusterTree, Cluster; cluster.hpp in                    *)
(* src/unnamed/part_002) is followed by SpecTree, a writer and a reader of  *)
(* one table, and by SpecCascade, objects with a strong link column and     *)
(* erase calls that cascade.                                                *)
(*                                                                         *)
(* A MixedRef returned by operator[] is a temporary: the model consumes it  *)
(* in the full expression that produced it (dict[k] = v, or Mixed(dict[k])).*)
(* Positions are 0-based as in the code; sequences are 1-based.            *)
(***************************************************************************)
EXTENDS Integers, Sequences, FiniteSets, TLC

\* ------------------------------------------------------------------ bounds
MaxRef == 6          \* cells of node memory the allocator can hand out
MaxVersion == 2      \* transaction boundaries in one behaviour
MaxRow == 1          \* largest row index the owning object may have
NumHandles == 2      \* dictionary handles alive at the same time
MaxKey == 5          \* largest ObjKey value of the object table
node_max == 3        \* most rows a cluster holds
MaxNode == 12        \* cluster nodes the allocator can hand out
MaxDirty == 1        \* keys by which a write transaction, and a reader's snapshot, differ from the last commit
MaxLinked == 3       \* largest ObjKey value of an object that takes part in links
KeyBits == 6         \* width of an unsigned key value in the key array (64 in the program)

\* ------------------------------------------------------------ value domain
Null == <<"null", 0>>
Hello == <<"string", 1>>
Goodbye == <<"string", 2>>
Keys == {Hello, Goodbye}
Values == {Null, <<"int", 9>>}

Refs == 1..MaxRef
Handles == 1..NumHandles
OtherHandle == 0
AllHandles == {OtherHandle} \cup Handles
NoRef == 0
npos == -1
NotFound == <<"out_of_range", 0>>
DefaultAllocVersion == 0
FreeCell == [st |-> "free", data |-> <<>>]
NoHandle ==
    [live |-> FALSE, view |-> "u", parent |-> FALSE, cv |-> 0, stale |-> FALSE,
     keys |-> NoRef, values |-> NoRef]
NoRet ==
    [op |-> "none", h |-> 0, key |-> Null, val |-> Null, out |-> Null,
     flag |-> FALSE, n |-> 0, items |-> <<>>, reloaded |-> FALSE, unsynced |-> FALSE]

\* ------------------------------------------------------------ cluster nodes
\* the smallest row count a cluster other than a sole root may have: the
\* largest that the halves of a split at the midpoint (node_max + 1 rows) reach
node_min == (node_max + 1) \div 2
ObjKeys == 0..MaxKey
NodeRefs == 1..MaxNode
NoLink == -1
TheTable == "t"
FreeNode ==
    [kind |-> "free", compact |-> FALSE, sz |-> 0, keys |-> <<>>, link |-> <<>>,
     back |-> <<>>, kids |-> <<>>, offs |-> <<>>]
\* Cluster::create: no rows, keys in compact form (slot 0 is the tagged size)
NewCluster == [FreeNode EXCEPT !.kind = "leaf", !.compact = TRUE]
\* an inner node: the children and the key offset of each
NewInner(kids, offs) == [FreeNode EXCEPT !.kind = "inner", !.kids = kids, !.offs = offs]
NoCascade == [active |-> FALSE, seen |-> {}, queue |-> <<>>, deleted |-> <<>>]

VARIABLES
    nodes,     \* cluster node memory: reference -> node
    top,       \* root of the object tree: c(ommitted), as the w(riter) sees it, as the r(eader) captured it
    cascade,   \* CascadeState of the erase call under way
    version,   \* Allocator::get_content_version() of the database allocator
    heap,      \* node memory: reference -> [st: free/rw/ro, data: the leaf]
    slot,      \* dictionary column of the object: c(ommitted), and as transactions a and b see it
    wlock,     \* the transaction that holds the write lock, or "none"
    row,       \* m_obj.get_row_ndx() of the owning object
    hd,        \* the dictionary handles
    copied,    \* for a handle made by the copy constructor: the handle it copied
    ret        \* the last operation and what it returned

dvars == <<version, heap, slot, wlock, row, hd, copied>>
tvars == <<nodes, top, cascade>>
vars == <<version, heap, slot, wlock, row, hd, copied, ret, nodes, top, cascade>>

\* ------------------------------------------------------------ sequences
RECURSIVE FirstIndex(_, _, _)
FirstIndex(seq, x, i) ==
    IF i > Len(seq) THEN npos
    ELSE IF seq[i] = x THEN i - 1
    ELSE FirstIndex(seq, x, i + 1)

RemoveAt(seq, p) == [i \in 1..(Len(seq) - 1) |-> IF i <= p THEN seq[i] ELSE seq[i + 1]]
SetAt(seq, p, x) == [seq EXCEPT ![p + 1] = x]

\* ------------------------------------------------- machine state of a step
Cur == [heap |-> heap, slot |-> slot, hd |-> hd]

\* ------------------------------------------------------------ allocator
FreeRefs(s) == {r \in Refs : s.heap[r].st = "free"}
Alloc(s) == CHOOSE r \in FreeRefs(s) : \A q \in FreeRefs(s) : r <= q
AllocVersion(s, h) == IF s.hd[h].view = "a" THEN version ELSE DefaultAllocVersion

\* Every place that holds a reference, in a fixed order.
RefPlaces(s) ==
    LET SlotSeq(v) == [i \in 1..(2 * MaxRow + 2) |-> s.slot[v][i - 1]]
        HandleSeq == [i \in 1..(2 * NumHandles) |->
                         IF i % 2 = 1 THEN s.hd[(i + 1) \div 2].keys
                         ELSE s.hd[i \div 2].values]
    IN  SlotSeq("c") \o SlotSeq("a") \o SlotSeq("b") \o HandleSeq

\* Reclamation and compaction: cells no view and no handle refers to are
\* released, and references, being opaque, are renumbered in the order of
\* RefPlaces.
Collect(s) ==
    LET places == RefPlaces(s)
        Seen[i \in 0..Len(places)] ==
            IF i = 0 THEN <<>>
            ELSE LET prev == Seen[i - 1]
                 IN  IF places[i] = NoRef \/ \E j \in DOMAIN prev : prev[j] = places[i]
                     THEN prev ELSE Append(prev, places[i])
        order == Seen[Len(places)]
        rank == [ref \in 0..MaxRef |->
                    IF \E j \in DOMAIN order : order[j] = ref
                    THEN CHOOSE j \in DOMAIN order : order[j] = ref ELSE NoRef]
    IN  [heap |-> [k \in Refs |-> IF k <= Len(order) THEN s.heap[order[k]] ELSE FreeCell],
         slot |-> [v \in DOMAIN s.slot |->
                      [i \in DOMAIN s.slot[v] |-> rank[s.slot[v][i]]]],
         hd |-> [h \in AllHandles |->
                    [s.hd[h] EXCEPT !.keys = rank[s.hd[h].keys],
                                    !.values = rank[s.hd[h].values]]]]

\* ------------------------------------------------------------ Obj
get_row_ndx == row
set_dict_ref(s, h, ndx, ref) ==
    IF s.hd[h].view = "u" THEN s ELSE [s EXCEPT !.slot[s.hd[h].view][ndx] = ref]
get_dict_ref(s, h, ndx) ==
    IF s.hd[h].view = "u" THEN NoRef ELSE s.slot[s.hd[h].view][ndx]
obj_update_if_needed(s, h) == s.hd[h].stale

\* ------------------------------------------------------------ ArrayParent
KeysNdx == get_row_ndx * 2
ValuesNdx == get_row_ndx * 2 + 1
\* the two trees parented at each other's slot
NdxInParent_swapped(f) == IF f = "keys" THEN ValuesNdx ELSE KeysNdx

NdxInParent(f) == IF f = "keys" THEN KeysNdx ELSE ValuesNdx

\* an update_child_ref that does not reach the object
update_child_ref_lost(s, h, ndx, new_ref) == s

update_child_ref(s, h, ndx, new_ref) == set_dict_ref(s, h, ndx, new_ref)
get_child_ref(s, h, ndx) == get_dict_ref(s, h, ndx)

\* ------------------------------------------------------------ BPlusTree<Mixed>
tree_is_attached(ref) == ref # NoRef
tree_data(s, ref) == IF tree_is_attached(ref) THEN s.heap[ref].data ELSE <<>>
tree_size(s, ref) == Len(tree_data(s, ref))
tree_find_first(s, ref, x) == FirstIndex(tree_data(s, ref), x, 1)
\* past the end of the tree the read returns whatever lies there: u
tree_get(s, ref, p, u) ==
    IF p < tree_size(s, ref) THEN tree_data(s, ref)[p + 1] ELSE u

update_parent(s, h, f, ref) ==
    IF s.hd[h].parent THEN update_child_ref(s, h, NdxInParent(f), ref) ELSE s

copy_on_write(s, h, f) ==
    LET ref == s.hd[h][f]
    IN  IF s.heap[ref].st # "ro" THEN s
        ELSE LET new == Alloc(s)
                 s1 == [s EXCEPT !.heap[new] = [st |-> "rw", data |-> s.heap[ref].data],
                                 !.hd[h][f] = new]
             IN  update_parent(s1, h, f, new)

tree_write(s, h, f, data) ==
    LET s1 == copy_on_write(s, h, f)
    IN  [s1 EXCEPT !.heap[s1.hd[h][f]].data = data]

tree_create(s, h, f) ==
    LET new == Alloc(s)
        s1 == [s EXCEPT !.heap[new] = [st |-> "rw", data |-> <<>>], !.hd[h][f] = new]
    IN  update_parent(s1, h, f, new)

tree_add(s, h, f, x) == tree_write(s, h, f, Append(tree_data(s, s.hd[h][f]), x))
tree_set(s, h, f, p, x) == tree_write(s, h, f, SetAt(tree_data(s, s.hd[h][f]), p, x))
tree_erase(s, h, f, p) == tree_write(s, h, f, RemoveAt(tree_data(s, s.hd[h][f]), p))
tree_clear(s, h, f) == tree_write(s, h, f, <<>>)
tree_init_from_parent(s, h, f) == [s EXCEPT !.hd[h][f] = get_child_ref(s, h, NdxInParent(f))]

\* copy constructor of the tree: a deep clone that has no parent yet
tree_clone(s, h, f, from) ==
    IF ~tree_is_attached(s.hd[from][f]) THEN [s EXCEPT !.hd[h][f] = NoRef]
    ELSE LET new == Alloc(s)
         IN  [s EXCEPT !.heap[new] = [st |-> "rw", data |-> s.heap[s.hd[from][f]].data],
                       !.hd[h][f] = new]

\* ------------------------------------------------------------ ConstDictionary
\* an init_from_parent that reloads the trees and leaves the cached version
init_from_parent_unstamped(s, h) ==
    tree_init_from_parent(tree_init_from_parent(s, h, "keys"), h, "values")

init_from_parent(s, h) ==
    LET s1 == tree_init_from_parent(s, h, "keys")
        s2 == tree_init_from_parent(s1, h, "values")
    IN  [s2 EXCEPT !.hd[h].cv = AllocVersion(s, h)]

\* as in the first version of the class: the accessors are never reloaded
update_if_needed_never(s, h) == [s EXCEPT !.hd[h].stale = FALSE]

update_if_needed(s, h) ==
    LET content_version == AllocVersion(s, h)
        updated == obj_update_if_needed(s, h)
        s1 == [s EXCEPT !.hd[h].stale = FALSE]
    IN  IF updated \/ content_version # s.hd[h].cv THEN init_from_parent(s1, h) ELSE s1

\* the handle would reload if update_if_needed() ran now
Unsynced(s, h) == s.hd[h].stale \/ AllocVersion(s, h) # s.hd[h].cv

size_st(s, h) == update_if_needed(s, h)
size(s, h) ==
    LET s1 == size_st(s, h)
    IN  IF tree_is_attached(s1.hd[h].keys) THEN tree_size(s1, s1.hd[h].keys) ELSE 0

\* is_attached(): the negation of what the key tree answers
is_attached(s, h) == ~tree_is_attached(s.hd[h].keys)

\* a lookup that answers a missing key with the default Mixed
get_or_null(s, h, key, u) ==
    LET s1 == update_if_needed(s, h)
        m == IF tree_is_attached(s1.hd[h].keys)
             THEN tree_find_first(s1, s1.hd[h].keys, key) ELSE npos
    IN  IF m = npos THEN Null ELSE tree_get(s1, s1.hd[h].values, m, u)

get(s, h, key, u) ==
    LET s1 == update_if_needed(s, h)
        m == IF tree_is_attached(s1.hd[h].keys)
             THEN tree_find_first(s1, s1.hd[h].keys, key) ELSE npos
    IN  IF m = npos THEN NotFound ELSE tree_get(s1, s1.hd[h].values, m, u)

\* begin() and end(): the positions the two iterators hold
begin(s, h) == 0
end(s, h) == size(s, h)

\* an operator-> that reads the entry after the one it stands at
deref_next(s, h, p, u) ==
    <<tree_get(s, s.hd[h].keys, p + 1, u), tree_get(s, s.hd[h].values, p + 1, u)>>

\* Iterator::operator-> at position p
deref(s, h, p, u) ==
    <<tree_get(s, s.hd[h].keys, p, u), tree_get(s, s.hd[h].values, p, u)>>

\* end() first (it refreshes through size()), then begin() .. end()
iterate(s, h, u) ==
    LET s1 == size_st(s, h)
    IN  [p \in 1..size(s, h) |-> deref(s1, h, p - 1, u)]

\* the loop of operator==: i1 and i2 stand at position p, e at position n
RECURSIVE equal_from(_, _, _, _, _, _)
equal_from(s, h, other, p, n, u) ==
    IF p = n THEN TRUE
    ELSE IF deref(s, h, p, u)[1] # deref(s, other, p, u)[1] THEN FALSE
    ELSE IF deref(s, h, p, u)[2] # deref(s, other, p, u)[2] THEN FALSE
    ELSE equal_from(s, h, other, p + 1, n, u)

\* the state both size() calls of operator== leave
equal_st(s, h, other) == size_st(size_st(s, h), other)

\* an operator== that compares the keys only
equal_keys_only(s, h, other, u) ==
    LET s2 == equal_st(s, h, other)
    IN  IF size(s2, h) # size(s2, other) THEN FALSE
        ELSE \A p \in 0..(size(s2, h) - 1) :
                deref(s2, h, p, u)[1] = deref(s2, other, p, u)[1]

equal(s, h, other, u) ==
    LET s2 == equal_st(s, h, other)
    IN  IF size(s2, h) # size(s2, other) THEN FALSE
        ELSE equal_from(s2, h, other, 0, size(s2, h), u)

not_equal(s, h, other, u) == ~equal(s, h, other, u)

\* ------------------------------------------------------------ Dictionary
\* a create that does not ask whether the trees exist
create_always(s, h) ==
    tree_create(tree_create(update_if_needed(s, h), h, "keys"), h, "values")

create(s, h) ==
    LET s1 == update_if_needed(s, h)
    IN  IF ~tree_is_attached(s1.hd[h].keys)
        THEN tree_create(tree_create(s1, h, "keys"), h, "values")
        ELSE s1

\* BPlusTree::destroy: the accessor lets go of its tree, whose memory is
\* released
tree_destroy(s, h, f) == [s EXCEPT !.hd[h][f] = NoRef]
_destroy(s, h) == tree_destroy(tree_destroy(s, h, "keys"), h, "values")
destroy(s, h) == IF tree_is_attached(s.hd[h].keys) THEN _destroy(s, h) ELSE s

\* an insert that does not look the key up
insert_always_add(s, h, key, value) ==
    LET s1 == create(s, h)
    IN  [st |-> tree_add(tree_add(s1, h, "keys", key), h, "values", value),
         pos |-> tree_size(s1, s1.hd[h].keys), inserted |-> TRUE]

\* an insert that leaves the value of a key it finds
insert_keep_old(s, h, key, value) ==
    LET s1 == create(s, h)
        m == tree_find_first(s1, s1.hd[h].keys, key)
    IN  IF m = npos
        THEN [st |-> tree_add(tree_add(s1, h, "keys", key), h, "values", value),
              pos |-> tree_size(s1, s1.hd[h].keys), inserted |-> TRUE]
        ELSE [st |-> s1, pos |-> m, inserted |-> FALSE]

\* an insert that puts a new entry first
insert_first(s, h, key, value) ==
    LET s1 == create(s, h)
        m == tree_find_first(s1, s1.hd[h].keys, key)
        s2 == tree_write(s1, h, "keys", <<key>> \o tree_data(s1, s1.hd[h].keys))
    IN  IF m = npos
        THEN [st |-> tree_write(s2, h, "values",
                                <<value>> \o tree_data(s2, s2.hd[h].values)),
              pos |-> 0, inserted |-> TRUE]
        ELSE [st |-> tree_set(s1, h, "values", m, value), pos |-> m, inserted |-> FALSE]

\* an insert whose iterator is the end of the dictionary
insert_at_end(s, h, key, value) ==
    LET s1 == create(s, h)
        m == tree_find_first(s1, s1.hd[h].keys, key)
        s2 == IF m = npos
              THEN tree_add(tree_add(s1, h, "keys", key), h, "values", value)
              ELSE tree_set(s1, h, "values", m, value)
    IN  [st |-> s2, pos |-> tree_size(s2, s2.hd[h].keys), inserted |-> (m = npos)]

insert(s, h, key, value) ==
    LET s1 == create(s, h)
        m == tree_find_first(s1, s1.hd[h].keys, key)
        do_insert == (m = npos)
    IN  IF do_insert
        THEN [st |-> tree_add(tree_add(s1, h, "keys", key), h, "values", value),
              pos |-> tree_size(s1, s1.hd[h].keys), inserted |-> TRUE]
        ELSE [st |-> tree_set(s1, h, "values", m, value), pos |-> m, inserted |-> FALSE]

\* an erase that forgets the values tree
erase_keys_only(s, h, key) ==
    LET m == IF tree_is_attached(s.hd[h].keys)
             THEN tree_find_first(s, s.hd[h].keys, key) ELSE npos
    IN  IF m # npos THEN tree_erase(s, h, "keys", m) ELSE s

erase(s, h, key) ==
    LET m == IF tree_is_attached(s.hd[h].keys)
             THEN tree_find_first(s, s.hd[h].keys, key) ELSE npos
    IN  IF m # npos
        THEN tree_erase(tree_erase(s, h, "keys", m), h, "values", m)
        ELSE s

\* operator[]: the state after it and the index the MixedRef holds
\* an operator[] that only looks up: a missing key is not added
index_no_insert(s, h, key) ==
    LET s1 == create(s, h)
        m == tree_find_first(s1, s1.hd[h].keys, key)
    IN  IF m = npos
        THEN [st |-> s1, ndx |-> size(s1, h), added |-> TRUE]
        ELSE [st |-> s1, ndx |-> m, added |-> FALSE]

index(s, h, key) ==
    LET s1 == create(s, h)
        m == tree_find_first(s1, s1.hd[h].keys, key)
    IN  IF m = npos
        THEN [st |-> insert(s1, h, key, Null).st, ndx |-> size(s1, h), added |-> TRUE]
        ELSE [st |-> s1, ndx |-> m, added |-> FALSE]

_get(s, h, ndx, u) == tree_get(s, s.hd[h].values, ndx, u)
\* a _set that writes the first value whatever the index
_set_first(s, h, ndx, value) == tree_set(s, h, "values", 0, value)

_set(s, h, ndx, value) == tree_set(s, h, "values", ndx, value)

\* a clear that gives the storage up, as destroy() does
clear_destroy(s, h) ==
    LET s1 == size_st(s, h)
        s2 == update_parent(update_parent(s1, h, "keys", NoRef), h, "values", NoRef)
    IN  IF size(s, h) > 0
        THEN [s2 EXCEPT !.hd[h].keys = NoRef, !.hd[h].values = NoRef]
        ELSE s1

clear(s, h) ==
    LET s1 == size_st(s, h)
    IN  IF size(s, h) > 0
        THEN tree_clear(tree_clear(s1, h, "keys"), h, "values")
        ELSE s1

\* ------------------------------------------------------------ steps
Txns == {"a", "b"}

Done(s, r) ==
    LET t == Collect(s)
    IN  /\ heap' = t.heap
        /\ slot' = t.slot
        /\ hd' = t.hd
        /\ ret' = r
        /\ UNCHANGED <<version, wlock, row>>
        /\ UNCHANGED tvars

Live(h) == hd[h].live
\* a write needs the write lock of the handle's transaction; a dictionary
\* of an object is followed, once it has been copied, through its const
\* operations only (copy and original share the object's trees, and writes
\* through both would index one tree by the positions of another)
Writer(h) ==
    /\ hd[h].live
    /\ hd[h].view = "u" \/ hd[h].view = wlock
    /\ hd[h].view = "u" \/ \A g \in Handles : copied[g] # h
\* cells a write through h may take: one per tree that is detached or read-only
Needed(s, h) ==
    Cardinality({f \in {"keys", "values"} :
                    \/ ~tree_is_attached(s.hd[h][f])
                    \/ s.heap[s.hd[h][f]].st = "ro"})
Room(s, h) == Cardinality(FreeRefs(s)) >= Needed(s, h)
\* create() through a copy that has no object behind it writes a child
\* reference through an invalid Obj: the call does not return
CanCreate(s, h) ==
    LET s1 == update_if_needed(s, h)
    IN  tree_is_attached(s1.hd[h].keys) \/ ~(s1.hd[h].view = "u" /\ s1.hd[h].parent)
\* what a read through h may return from past the end of its value tree
Wild(s, h) ==
    IF /\ tree_is_attached(s.hd[h].keys)
       /\ tree_size(s, s.hd[h].keys) > tree_size(s, s.hd[h].values)
    THEN Values ELSE {Null}
\* the database has not been touched yet
Pristine ==
    /\ version = 0
    /\ wlock = "none"
    /\ \A v \in DOMAIN slot : \A i \in DOMAIN slot[v] : slot[v][i] = NoRef

Init ==
    /\ version = 0
    /\ heap = [r \in Refs |-> FreeCell]
    /\ row = MaxRow
    /\ slot = [v \in {"c"} \cup Txns |-> [i \in 0..(2 * MaxRow + 1) |-> NoRef]]
    /\ wlock = "none"
    /\ hd = [h \in AllHandles |-> NoHandle]
    /\ copied = [h \in Handles |-> 0]
    /\ ret = NoRet
    /\ nodes = [r \in NodeRefs |-> IF r = 1 THEN NewCluster ELSE FreeNode]
    /\ top = [c |-> 1, w |-> 1, r |-> NoRef]
    /\ cascade = NoCascade

\* Dictionary dict;
ConstructDefault(h) ==
    /\ h = 1
    /\ ~Live(h)
    /\ Pristine
    /\ \A g \in Handles : ~Live(g)
    /\ Done([Cur EXCEPT !.hd[h] = [NoHandle EXCEPT !.live = TRUE]],
            [NoRet EXCEPT !.op = "construct", !.h = h])
    /\ copied' = [copied EXCEPT ![h] = 0]

\* obj.get_dictionary(col): ConstDictionary(const ConstObj&, ColKey)
Construct(h, view) ==
    /\ ~Live(h)
    /\ h = 1
    /\ \A g \in Handles : ~Live(g)
    /\ LET s0 == [Cur EXCEPT !.hd[h] = [NoHandle EXCEPT !.live = TRUE, !.view = view,
                                                         !.parent = TRUE]]
       IN  Done(init_from_parent(s0, h), [NoRet EXCEPT !.op = "construct", !.h = h])
    /\ copied' = [copied EXCEPT ![h] = 0]

\* Dictionary other(dict): ConstDictionary(const ConstDictionary&)
Copy(h, from) ==
    /\ h # 1
    /\ ~Live(h)
    /\ Live(from)
    /\ Cardinality(FreeRefs(Cur)) >= 2
    /\ LET s0 == [Cur EXCEPT !.hd[h] = [NoHandle EXCEPT !.live = TRUE,
                                            !.view = hd[from].view,
                                            !.stale = hd[from].stale,
                                            !.parent = TRUE]]
           s1 == tree_clone(s0, h, "keys", from)
           s2 == tree_clone(s1, h, "values", from)
       IN  Done(s2, [NoRet EXCEPT !.op = "copy", !.h = h])
    /\ copied' = [copied EXCEPT ![h] = from]

\* Dictionary other(std::move(dict)): ConstDictionary(ConstDictionary&&).
\* The trees change hands as they are and are parented anew; the content
\* version of the new handle is its default; dict is not used again.
Move(h, from) ==
    /\ h # from
    /\ ~Live(h)
    /\ Live(from)
    /\ copied[from] = 0
    /\ \A g \in Handles : copied[g] # from
    /\ Done([Cur EXCEPT !.hd[h] = [hd[from] EXCEPT !.cv = NoHandle.cv, !.parent = TRUE],
                        !.hd[from] = NoHandle],
            [NoRet EXCEPT !.op = "move", !.h = h])
    /\ UNCHANGED copied

\* the handle goes out of scope, and the copies made of it with it
Drop(h) ==
    /\ Live(h)
    /\ copied[h] = 0
    /\ Done([Cur EXCEPT !.hd = [g \in AllHandles |->
                                  IF g = h \/ (g \in Handles /\ copied[g] = h)
                                  THEN NoHandle ELSE hd[g]]],
            [NoRet EXCEPT !.op = "drop", !.h = h])
    /\ copied' = [g \in Handles |-> 0]

Size(h) ==
    /\ Live(h)
    /\ Done(size_st(Cur, h),
            [NoRet EXCEPT !.op = "size", !.h = h, !.n = size(Cur, h),
                          !.reloaded = Unsynced(Cur, h),
                          !.unsynced = Unsynced(size_st(Cur, h), h)])
    /\ UNCHANGED copied

Get(h, key) ==
    /\ Live(h)
    /\ \E u \in Wild(update_if_needed(Cur, h), h) :
          Done(update_if_needed(Cur, h),
               [NoRet EXCEPT !.op = "get", !.h = h, !.key = key,
                             !.out = get(Cur, h, key, u),
                             !.reloaded = Unsynced(Cur, h),
                          !.unsynced = Unsynced(update_if_needed(Cur, h), h)])
    /\ UNCHANGED copied

Iterate(h) ==
    /\ Live(h)
    /\ \E u \in Wild(size_st(Cur, h), h) :
          Done(size_st(Cur, h),
               [NoRet EXCEPT !.op = "iterate", !.h = h, !.items = iterate(Cur, h, u),
                             !.reloaded = Unsynced(Cur, h),
                          !.unsynced = Unsynced(size_st(Cur, h), h)])
    /\ UNCHANGED copied

\* dict == other, dict != other
Equal(h, other) ==
    /\ Live(h)
    /\ Live(other)
    /\ h # other
    /\ LET s2 == equal_st(Cur, h, other)
       IN  \E u \in Wild(s2, h) \cup Wild(s2, other) :
              Done(s2,
                   [NoRet EXCEPT !.op = "equal", !.h = h, !.n = other,
                                 !.flag = equal(Cur, h, other, u),
                                 !.out = <<"bool", IF not_equal(Cur, h, other, u)
                                                   THEN 1 ELSE 0>>,
                                 !.reloaded = Unsynced(Cur, h) \/ Unsynced(Cur, other),
                                 !.unsynced = Unsynced(s2, h) \/ Unsynced(s2, other)])
    /\ UNCHANGED copied

Create(h) ==
    /\ Writer(h)
    /\ Room(update_if_needed(Cur, h), h)
    /\ CanCreate(Cur, h)
    /\ Done(create(Cur, h),
            [NoRet EXCEPT !.op = "create", !.h = h,
                          !.reloaded = Unsynced(Cur, h),
                          !.unsynced = Unsynced(update_if_needed(Cur, h), h)])
    /\ UNCHANGED copied

Insert(h, key, value) ==
    /\ Writer(h)
    /\ Room(update_if_needed(Cur, h), h)
    /\ CanCreate(Cur, h)
    /\ LET r == insert(Cur, h, key, value)
       IN  Done(r.st,
                [NoRet EXCEPT !.op = "insert", !.h = h, !.key = key, !.val = value,
                              !.flag = r.inserted, !.n = r.pos,
                              !.reloaded = Unsynced(Cur, h),
                          !.unsynced = Unsynced(update_if_needed(Cur, h), h)])
    /\ UNCHANGED copied

Erase(h, key) ==
    /\ Writer(h)
    /\ Room(Cur, h)
    /\ Done(erase(Cur, h, key),
            [NoRet EXCEPT !.op = "erase", !.h = h, !.key = key,
                          !.unsynced = Unsynced(Cur, h)])
    /\ UNCHANGED copied

\* Mixed(dict[key])
IndexRead(h, key) ==
    /\ Writer(h)
    /\ Room(update_if_needed(Cur, h), h)
    /\ CanCreate(Cur, h)
    /\ LET r == index(Cur, h, key)
       IN  \E u \in Wild(r.st, h) :
               Done(r.st,
                    [NoRet EXCEPT !.op = "index", !.h = h, !.key = key,
                                  !.out = _get(r.st, h, r.ndx, u), !.n = r.ndx,
                                  !.flag = r.added,
                                  !.reloaded = Unsynced(Cur, h),
                          !.unsynced = Unsynced(update_if_needed(Cur, h), h)])
    /\ UNCHANGED copied

\* dict[key] = value
IndexAssign(h, key, value) ==
    /\ Writer(h)
    /\ Room(update_if_needed(Cur, h), h)
    /\ CanCreate(Cur, h)
    /\ LET r == index(Cur, h, key)
       IN  Done(_set(r.st, h, r.ndx, value),
                [NoRet EXCEPT !.op = "assign", !.h = h, !.key = key, !.val = value,
                              !.n = r.ndx, !.flag = r.added,
                              !.reloaded = Unsynced(Cur, h),
                          !.unsynced = Unsynced(update_if_needed(Cur, h), h)])
    /\ UNCHANGED copied

Clear(h) ==
    /\ Writer(h)
    /\ Room(update_if_needed(Cur, h), h)
    /\ Done(clear(Cur, h),
            [NoRet EXCEPT !.op = "clear", !.h = h, !.n = size(Cur, h),
                          !.reloaded = Unsynced(Cur, h),
                          !.unsynced = Unsynced(size_st(Cur, h), h)])
    /\ UNCHANGED copied

\* dict.is_attached()
IsAttached(h) ==
    /\ Live(h)
    /\ Done(Cur, [NoRet EXCEPT !.op = "is_attached", !.h = h, !.flag = is_attached(Cur, h)])
    /\ UNCHANGED copied

\* the column value of the object is cleared: dict.destroy(), and the
\* child references of the column are nulled
Destroy(h) ==
    /\ Writer(h)
    /\ LET s1 == destroy(Cur, h)
           s2 == update_parent(update_parent(s1, h, "keys", NoRef), h, "values", NoRef)
       IN  Done(s2, [NoRet EXCEPT !.op = "destroy", !.h = h,
                                  !.flag = tree_is_attached(hd[h].keys)])
    /\ UNCHANGED copied

\* the handles of transaction a learn that their object accessor moved
Moved(s) ==
    [h \in AllHandles |->
        IF s.hd[h].live /\ s.hd[h].view = "a" THEN [s.hd[h] EXCEPT !.stale = TRUE]
        ELSE s.hd[h]]

NoFreeStanding == \A h \in Handles : Live(h) => hd[h].view # "u"

\* what a transaction wrote becomes the last commit, and read-only
Publish(s, t) ==
    LET s1 == [s EXCEPT !.slot.c = s.slot[t]]
        written == {s1.slot.c[i] : i \in DOMAIN s1.slot.c} \ {NoRef}
    IN  [s1 EXCEPT !.heap = [r \in Refs |->
                                IF r \in written THEN [s1.heap[r] EXCEPT !.st = "ro"]
                                ELSE s1.heap[r]]]

\* transaction a moves to the last commit and takes the write lock
BeginWrite ==
    /\ wlock = "none"
    /\ version < MaxVersion
    /\ NoFreeStanding
    /\ version' = version + 1
    /\ wlock' = "a"
    /\ LET s == Collect([Cur EXCEPT !.slot.a = slot.c])
       IN  /\ slot' = s.slot
           /\ heap' = s.heap
           /\ hd' = Moved(s)
    /\ ret' = [NoRet EXCEPT !.op = "begin_write"]
    /\ UNCHANGED tvars
    /\ UNCHANGED <<row, copied>>

\* transaction a, reading, advances to the last commit
AdvanceRead ==
    /\ wlock = "none"
    /\ version < MaxVersion
    /\ slot.a # slot.c
    /\ version' = version + 1
    /\ LET s == Collect([Cur EXCEPT !.slot.a = slot.c])
       IN  /\ slot' = s.slot
           /\ heap' = s.heap
           /\ hd' = Moved(s)
    /\ ret' = [NoRet EXCEPT !.op = "advance_read"]
    /\ UNCHANGED tvars
    /\ UNCHANGED <<wlock, row, copied>>

\* transaction a commits
Commit ==
    /\ wlock = "a"
    /\ wlock' = "none"
    /\ LET s == Collect(Publish(Cur, "a"))
       IN  /\ slot' = s.slot
           /\ heap' = s.heap
           /\ hd' = s.hd
    /\ ret' = [NoRet EXCEPT !.op = "commit"]
    /\ UNCHANGED tvars
    /\ UNCHANGED <<version, row, copied>>

\* the other writer's transaction: begin on the last commit, get the
\* dictionary of the object, write, commit
OtherOps ==
    [kind : {"insert"}, key : Keys, val : Values]
        \cup [kind : {"erase"}, key : Keys, val : {Null}]
        \cup [kind : {"clear"}, key : {Null}, val : {Null}]

OtherWrite(s, w) ==
    LET o == OtherHandle
        s0 == [s EXCEPT !.slot.b = s.slot.c,
                        !.hd[o] = [NoHandle EXCEPT !.live = TRUE, !.view = "b",
                                                   !.parent = TRUE]]
        s1 == init_from_parent(s0, o)
        s2 == CASE w.kind = "insert" -> insert(s1, o, w.key, w.val).st
                [] w.kind = "erase" -> erase(s1, o, w.key)
                [] w.kind = "clear" -> clear(s1, o)
        s3 == Publish(s2, "b")
    IN  [s3 EXCEPT !.slot.b = [i \in DOMAIN s.slot.b |-> NoRef], !.hd[o] = NoHandle]

OtherCommit(w) ==
    /\ wlock = "none"
    /\ NoFreeStanding
    /\ Cardinality(FreeRefs(Cur)) >= 2
    /\ LET s == Collect(OtherWrite(Cur, w))
       IN  /\ slot' = s.slot
           /\ heap' = s.heap
           /\ hd' = s.hd
    /\ ret' = [NoRet EXCEPT !.op = "other_commit"]
    /\ UNCHANGED tvars
    /\ UNCHANGED <<version, wlock, row, copied>>

Lifetime ==
    \/ \E h \in Handles : ConstructDefault(h)
    \/ \E h \in Handles : Construct(h, "a")
    \/ \E h \in Handles : Drop(h)

Lookup ==
    \/ \E h \in Handles, k \in Keys : Get(h, k)
    \/ \E h \in Handles : Iterate(h)

Update ==
    \/ \E h \in Handles : Create(h)
    \/ \E h \in Handles, k \in Keys, v \in Values : Insert(h, k, v)
    \/ \E h \in Handles, k \in Keys : Erase(h, k)
    \/ \E h \in Handles : Clear(h)

Subscript ==
    \/ \E h \in Handles, k \in Keys : IndexRead(h, k)
    \/ \E h \in Handles, k \in Keys, v \in Values : IndexAssign(h, k, v)

\* one accessor at a time, and another writer committing between the
\* accessor's transactions
Next ==
    \/ Lifetime
    \/ \E h \in Handles : Size(h)
    \/ Lookup
    \/ Update
    \/ Subscript
    \/ BeginWrite
    \/ AdvanceRead
    \/ Commit
    \/ \E w \in OtherOps : OtherCommit(w)

Spec == Init /\ [][Next]_vars

\* an accessor and a copy of it, in the accessor's own transactions, each
\* observed by iteration, and compared
NextCopy ==
    \/ Lifetime
    \/ \E h, g \in Handles : Copy(h, g)
    \/ \E h \in Handles : Iterate(h)
    \/ \E h, g \in Handles : Equal(h, g)
    \/ Update
    \/ BeginWrite
    \/ Commit

SpecCopy == Init /\ [][NextCopy]_vars

\* an accessor that is moved and copied, read and written through
NextAnchor ==
    \/ Lifetime
    \/ \E h, g \in Handles : Copy(h, g)
    \/ \E h, g \in Handles : Move(h, g)
    \/ \E h \in Handles : Size(h)
    \/ \E h \in Handles, k \in Keys, v \in Values : Insert(h, k, v)
    \/ \E h \in Handles, k \in Keys : Erase(h, k)
    \/ BeginWrite
    \/ Commit

SpecAnchor == Init /\ [][NextAnchor]_vars

\* an accessor asked whether it is attached, before and after its trees
\* are created and destroyed
NextAttach ==
    \/ Lifetime
    \/ \E h \in Handles : IsAttached(h)
    \/ \E h \in Handles : Create(h)
    \/ \E h \in Handles, k \in Keys, v \in Values : Insert(h, k, v)
    \/ \E h \in Handles : Destroy(h)
    \/ BeginWrite
    \/ Commit

SpecAttach == Init /\ [][NextAttach]_vars

\* ====================================================== the object tree
\* ClusterTree, ClusterNode and Cluster are declared in cluster.hpp
\* (src/unnamed/part_002); the inline members are modelled from it, the
\* members it only declares from sections 3 and 4 of the specification.
\* The tree is followed while its inner root has clusters as children: an
\* inner node takes as many children as the keys allow.

\* ------------------------------------------------------------ sequences
InsertAt(seq, p, x) ==
    [i \in 1..(Len(seq) + 1) |-> IF i <= p THEN seq[i] ELSE IF i = p + 1 THEN x ELSE seq[i - 1]]
Prefix(seq, n) == SubSeq(seq, 1, n)
Suffix(seq, p) == SubSeq(seq, p + 1, Len(seq))

\* ------------------------------------------------------------ ClusterKeyArray
\* lower_bound of a key array: binary search for the first position whose
\* key is not below the value
\* uint64_t(key.value): the value modulo two to the width
to_uint64(v) == v % (2 ^ KeyBits)

\* a search for the first position whose key is above the value
keys_upper_bound(keys, value) == Cardinality({i \in DOMAIN keys : keys[i] <= value})

RECURSIVE keys_lower_bound_from(_, _, _, _)
keys_lower_bound_from(keys, value, lo, hi) ==
    IF lo >= hi THEN lo
    ELSE LET mid == (lo + hi) \div 2
         IN  IF to_uint64(keys[mid + 1]) < value
             THEN keys_lower_bound_from(keys, value, mid + 1, hi)
             ELSE keys_lower_bound_from(keys, value, lo, mid)
keys_lower_bound(keys, value) == keys_lower_bound_from(keys, value, 0, Len(keys))

\* ------------------------------------------------------------ Cluster
get_size_in_compact_form(n) == n.sz
node_size(n) ==
    IF n.kind = "free" THEN 0
    ELSE IF ~n.compact THEN Len(n.keys) ELSE get_size_in_compact_form(n)
get_key_value(n, ndx) == IF n.compact THEN ndx ELSE n.keys[ndx + 1]
get_last_key_value(n) ==
    LET sz == node_size(n) IN IF sz > 0 THEN get_key_value(n, sz - 1) ELSE -1
\* a lower_bound_key that always answers the first row
lower_bound_key_first(n, key) == 0

lower_bound_key(n, key) ==
    IF ~n.compact THEN keys_lower_bound(n.keys, to_uint64(key))
    ELSE LET sz == n.sz
         IN  IF key < 0 THEN 0
             ELSE IF key > sz THEN sz
             ELSE key

\* the keys of a cluster in row order, relative to its offset
StoredKeys(n) == [i \in 1..node_size(n) |-> get_key_value(n, i - 1)]
has_key(n, key) ==
    LET ndx == lower_bound_key(n, key)
    IN  ndx < node_size(n) /\ get_key_value(n, ndx) = key

ensure_general_form(n) ==
    IF n.compact
    THEN [n EXCEPT !.compact = FALSE, !.keys = [i \in 1..n.sz |-> i - 1], !.sz = 0]
    ELSE n

\* adjust_keys(offset): the key array is made explicit, then every key moves
adjust_keys(n, offset) ==
    [ensure_general_form(n) EXCEPT
        !.keys = [i \in DOMAIN @ |-> @[i] + offset]]

insert_row(n, ndx, k) ==
    LET n1 == IF n.compact /\ k = n.sz
              THEN [n EXCEPT !.sz = @ + 1]
              ELSE [ensure_general_form(n) EXCEPT !.keys = InsertAt(@, ndx, k)]
    IN  [n1 EXCEPT !.link = InsertAt(@, ndx, NoLink), !.back = InsertAt(@, ndx, {})]

\* a move that leaves the moved keys as they are
Cluster_move_unadjusted(n, ndx, new_node, key_adj) ==
    LET g == ensure_general_form(n)
        to == ensure_general_form(new_node)
    IN  [from |-> [g EXCEPT !.keys = Prefix(@, ndx), !.link = Prefix(@, ndx),
                            !.back = Prefix(@, ndx)],
         to |-> [to EXCEPT !.keys = @ \o Suffix(g.keys, ndx),
                           !.link = @ \o Suffix(g.link, ndx),
                           !.back = @ \o Suffix(g.back, ndx)]]

\* a move that carries the keys over and leaves the columns of the moved
\* rows at their defaults
Cluster_move_keys_only(n, ndx, new_node, key_adj) ==
    LET g == ensure_general_form(n)
        to == ensure_general_form(new_node)
        moved == Suffix(g.keys, ndx)
    IN  [from |-> [g EXCEPT !.keys = Prefix(@, ndx), !.link = Prefix(@, ndx),
                            !.back = Prefix(@, ndx)],
         to |-> [to EXCEPT !.keys = @ \o [i \in DOMAIN moved |-> moved[i] - key_adj],
                           !.link = @ \o [i \in DOMAIN moved |-> NoLink],
                           !.back = @ \o [i \in DOMAIN moved |-> {}]]]

\* move(ndx, new_node, key_adj): the rows from ndx on go to the end of
\* new_node, the sibling to the right, their keys less key_adj
Cluster_move(n, ndx, new_node, key_adj) ==
    LET g == ensure_general_form(n)
        to == ensure_general_form(new_node)
        moved == Suffix(g.keys, ndx)
    IN  [from |-> [g EXCEPT !.keys = Prefix(@, ndx), !.link = Prefix(@, ndx),
                            !.back = Prefix(@, ndx)],
         to |-> [to EXCEPT !.keys = @ \o [i \in DOMAIN moved |-> moved[i] - key_adj],
                           !.link = @ \o Suffix(g.link, ndx),
                           !.back = @ \o Suffix(g.back, ndx)]]

\* a split that leaves the new sibling one row only
split_point_last(sz) == sz - 1
split_point(sz) == sz \div 2

\* insert(k, state): the row goes to its sorted position; a cluster that
\* has grown past node_max is split at the midpoint
Cluster_insert(n, k) ==
    LET ndx == lower_bound_key(n, k)
        n1 == insert_row(n, ndx, k)
        sz == node_size(n1)
    IN  IF sz <= node_max
        THEN [node |-> n1, split |-> FALSE, split_key |-> 0, sibling |-> FreeNode]
        ELSE LET mid == split_point(sz)
                 sk == get_key_value(n1, mid)
                 mv == Cluster_move(n1, mid, NewCluster, sk)
             IN  [node |-> mv.from, split |-> TRUE, split_key |-> sk, sibling |-> mv.to]

\* an erase that drops the key array again when the keys left are 0..n-1
Cluster_erase_compacting(n, k) ==
    LET ndx == lower_bound_key(n, k)
        ks == RemoveAt(StoredKeys(n), ndx)
        n1 == IF \A i \in DOMAIN ks : ks[i] = i - 1
              THEN [n EXCEPT !.compact = TRUE, !.keys = <<>>, !.sz = Len(ks)]
              ELSE [ensure_general_form(n) EXCEPT !.keys = ks]
    IN  [n1 EXCEPT !.link = RemoveAt(@, ndx), !.back = RemoveAt(@, ndx)]

\* erase(k, state), the row itself: it leaves the key array and every column
Cluster_erase(n, k) ==
    LET ndx == lower_bound_key(n, k)
        n1 == IF n.compact /\ ndx = n.sz - 1
              THEN [n EXCEPT !.sz = @ - 1]
              ELSE [ensure_general_form(n) EXCEPT !.keys = RemoveAt(@, ndx)]
    IN  [n1 EXCEPT !.link = RemoveAt(@, ndx), !.back = RemoveAt(@, ndx)]

\* ------------------------------------------------------------ node memory
CurTree == [nodes |-> nodes, top |-> top]
Kids(t, ref) == IF ref = NoRef THEN <<>> ELSE t.nodes[ref].kids
Reach(t, ref) ==
    IF ref = NoRef THEN {} ELSE {ref} \cup {Kids(t, ref)[i] : i \in DOMAIN Kids(t, ref)}
FreeNodes(t) == {r \in NodeRefs : t.nodes[r].kind = "free"}
TreeAlloc(t) == CHOOSE r \in FreeNodes(t) : \A q \in FreeNodes(t) : r <= q
\* Array::is_read_only(): the node belongs to a committed snapshot
is_read_only(t, ref) == ref \in Reach(t, t.top.c) \cup Reach(t, t.top.r)
is_writeable(t, ref) == ~is_read_only(t, ref)

\* Nodes no root reaches are released, and references renumbered in the
\* order the roots reach them.
TreeCollect(t) ==
    LET Under(ref) == IF ref = NoRef THEN <<>> ELSE <<ref>> \o Kids(t, ref)
        places == Under(t.top.c) \o Under(t.top.w) \o Under(t.top.r)
        Seen[i \in 0..Len(places)] ==
            IF i = 0 THEN <<>>
            ELSE LET prev == Seen[i - 1]
                 IN  IF \E j \in DOMAIN prev : prev[j] = places[i]
                     THEN prev ELSE Append(prev, places[i])
        order == Seen[Len(places)]
        rank == [ref \in 0..MaxNode |->
                    IF \E j \in DOMAIN order : order[j] = ref
                    THEN CHOOSE j \in DOMAIN order : order[j] = ref ELSE NoRef]
    IN  [nodes |-> [k \in NodeRefs |->
                       IF k <= Len(order)
                       THEN [t.nodes[order[k]] EXCEPT
                                !.kids = [i \in DOMAIN @ |-> rank[@[i]]]]
                       ELSE FreeNode],
         top |-> [v \in DOMAIN t.top |-> rank[t.top[v]]]]

\* ------------------------------------------------------------ ClusterNodeInner
\* the child whose part of the key space holds the key
child_index(n, k) ==
    CHOOSE i \in DOMAIN n.offs :
        /\ n.offs[i] <= k
        /\ \A j \in DOMAIN n.offs : n.offs[j] <= k => j <= i

\* ------------------------------------------------------------ ensure_writeable
root_writeable(t) ==
    LET r == t.top.w
    IN  IF is_writeable(t, r) THEN t
        ELSE LET new == TreeAlloc(t)
             IN  [t EXCEPT !.nodes[new] = t.nodes[r], !.top.w = new]
\* the root is writeable: child i is cloned if it is shared, and the root's
\* child reference follows
child_writeable(t, i) ==
    LET r == t.top.w
        kid == t.nodes[r].kids[i]
    IN  IF is_writeable(t, kid) THEN t
        ELSE LET new == TreeAlloc(t)
             IN  [t EXCEPT !.nodes[new] = t.nodes[kid], !.nodes[r].kids[i] = new]
\* an ensure_writeable that clones nothing
ensure_writeable_in_place(t, k) == t
\* descend from the root and copy-on-write the leaf of key k, parents first
writeable_leaf(t1, k) ==
    IF t1.nodes[t1.top.w].kind = "leaf" THEN t1
    ELSE child_writeable(t1, child_index(t1.nodes[t1.top.w], k))
ensure_writeable(t, k) == writeable_leaf(root_writeable(t), k)

\* ------------------------------------------------------------ ClusterTree
\* get(key, state): the cluster and the row of a key under a root
ClusterTree_get(t, rootref, k) ==
    LET root == t.nodes[rootref]
    IN  IF root.kind = "leaf"
        THEN [ref |-> rootref, offset |-> 0, index |-> lower_bound_key(root, k),
              found |-> has_key(root, k)]
        ELSE LET i == child_index(root, k)
                 leaf == t.nodes[root.kids[i]]
                 rel == k - root.offs[i]
             IN  [ref |-> root.kids[i], offset |-> root.offs[i],
                  index |-> lower_bound_key(leaf, rel), found |-> has_key(leaf, rel)]
is_valid(t, rootref, k) == ClusterTree_get(t, rootref, k).found

\* insert(key): a split of a child adds the sibling after it; a split of a
\* root leaf puts a new inner root above the two halves
\* the root leaf has taken the row
grow_root(t1, r) ==
    LET rref == t1.top.w
        t2 == [t1 EXCEPT !.nodes[rref] = r.node]
    IN  IF ~r.split THEN t2
        ELSE LET sref == TreeAlloc(t2)
                 t3 == [t2 EXCEPT !.nodes[sref] = r.sibling]
                 iref == TreeAlloc(t3)
             IN  [t3 EXCEPT !.nodes[iref] = NewInner(<<rref, sref>>, <<0, r.split_key>>),
                            !.top.w = iref]
\* child i of the root has taken the row
grow_child(t1, i, r) ==
    LET rref == t1.top.w
        root == t1.nodes[rref]
        t2 == [t1 EXCEPT !.nodes[root.kids[i]] = r.node]
    IN  IF ~r.split THEN t2
        ELSE LET sref == TreeAlloc(t2)
             IN  [t2 EXCEPT !.nodes[sref] = r.sibling,
                            !.nodes[rref].kids = InsertAt(@, i, sref),
                            !.nodes[rref].offs = InsertAt(@, i, root.offs[i] + r.split_key)]
insert_in_child(t1, k, i) ==
    LET root == t1.nodes[t1.top.w]
    IN  grow_child(t1, i, Cluster_insert(t1.nodes[root.kids[i]], k - root.offs[i]))
insert_writeable(t1, k) ==
    LET root == t1.nodes[t1.top.w]
    IN  IF root.kind = "leaf"
        THEN grow_root(t1, Cluster_insert(root, k))
        ELSE insert_in_child(t1, k, child_index(root, k))
ClusterTree_insert(t, k) == insert_writeable(ensure_writeable(t, k), k)

\* an erase that leaves a cluster below node_min as it is
merge_or_rebalance_never(t, l) == t

\* children l and l + 1 of the writeable root are merged into l; if the
\* rows do not fit one cluster they are divided again at the midpoint
fit_or_divide(t1, l, merged) ==
    LET rref == t1.top.w
        root == t1.nodes[rref]
        lref == root.kids[l]
        sref == root.kids[l + 1]
    IN  IF node_size(merged) <= node_max
        THEN LET t2 == [t1 EXCEPT !.nodes[lref] = merged,
                                  !.nodes[rref].kids = RemoveAt(@, l),
                                  !.nodes[rref].offs = RemoveAt(@, l)]
             IN  IF Len(root.kids) = 2
                 THEN [t2 EXCEPT !.top.w = lref]
                 ELSE t2
        ELSE LET mid == split_point(node_size(merged))
                 sk == get_key_value(merged, mid)
                 mv == Cluster_move(merged, mid, NewCluster, sk)
             IN  [t1 EXCEPT !.nodes[lref] = mv.from,
                            !.nodes[sref] = mv.to,
                            !.nodes[rref].offs[l + 1] = root.offs[l] + sk]
merge_children(t1, l) ==
    LET root == t1.nodes[t1.top.w]
    IN  fit_or_divide(t1, l, Cluster_move(t1.nodes[root.kids[l + 1]], 0, t1.nodes[root.kids[l]],
                                          root.offs[l] - root.offs[l + 1]).to)
merge_or_rebalance(t, l) == merge_children(child_writeable(child_writeable(t, l), l + 1), l)

\* erase(key, state), the tree's part: the row leaves its cluster; a cluster
\* that falls below node_min is merged or rebalanced with a neighbour; an
\* empty root leaf stays
erase_in_child(t1, k, i) ==
    LET root == t1.nodes[t1.top.w]
        cref == root.kids[i]
        n1 == Cluster_erase(t1.nodes[cref], k - root.offs[i])
        t2 == [t1 EXCEPT !.nodes[cref] = n1]
    IN  IF node_size(n1) >= node_min THEN t2
        ELSE merge_or_rebalance(t2, IF i < Len(root.kids) THEN i ELSE i - 1)
erase_writeable(t1, k) ==
    LET rref == t1.top.w
        root == t1.nodes[rref]
    IN  IF root.kind = "leaf"
        THEN [t1 EXCEPT !.nodes[rref] = Cluster_erase(root, k)]
        ELSE erase_in_child(t1, k, child_index(root, k))
ClusterTree_erase(t, k) == erase_writeable(ensure_writeable(t, k), k)

\* ------------------------------------------------------------ links
RowAt(t, loc) ==
    [link |-> t.nodes[loc.ref].link[loc.index + 1],
     back |-> t.nodes[loc.ref].back[loc.index + 1]]
Row(t, k) == RowAt(t, ClusterTree_get(t, t.top.w, k))
\* the row of a key whose cluster has been made writeable
writeable_row(t1, k) == [t |-> t1, loc |-> ClusterTree_get(t1, t1.top.w, k)]
set_link_to(w, target) ==
    [w.t EXCEPT !.nodes[w.loc.ref].link[w.loc.index + 1] = target]
set_link_value(t, k, target) == set_link_to(writeable_row(ensure_writeable(t, k), k), target)
set_backlinks_to(w, origins) ==
    [w.t EXCEPT !.nodes[w.loc.ref].back[w.loc.index + 1] = origins]
set_backlinks(t, k, origins) == set_backlinks_to(writeable_row(ensure_writeable(t, k), k), origins)
\* obj.set(col, target) of a strong link column that holds null
add_backlink(t1, target, k) == set_backlinks(t1, target, Row(t1, target).back \cup {k})
set_link(t, k, target) == add_backlink(set_link_value(t, k, target), target, k)
\* the links of the given origins are set to null
RECURSIVE nullify_links(_, _)
nullify_links(t, origins) ==
    IF origins = {} THEN t
    ELSE LET o == CHOOSE x \in origins : \A y \in origins : x <= y
         IN  nullify_links(set_link_value(t, o, NoLink), origins \ {o})

\* ------------------------------------------------------------ CascadeState
\* an enqueue that does not look at what is queued or processed already
enqueue_unguarded(cs, pair) ==
    [cs EXCEPT !.seen = @ \cup {pair}, !.queue = Append(@, pair)]
enqueue_for_cascade(cs, pair) ==
    IF pair \in cs.seen THEN cs
    ELSE [cs EXCEPT !.seen = @ \cup {pair}, !.queue = Append(@, pair)]
begin_cascade(k) == enqueue_for_cascade([NoCascade EXCEPT !.active = TRUE], <<TheTable, k>>)

\* remove_backlinks(origin_key, col, keys, state): the target loses the
\* backlink of the origin; a target left without backlinks is a cascade
\* candidate
drop_backlink(t, cs, target, left) ==
    [t |-> set_backlinks(t, target, left),
     cs |-> IF left = {} THEN enqueue_for_cascade(cs, <<TheTable, target>>) ELSE cs]
remove_backlinks(t, cs, origin, target) ==
    drop_backlink(t, cs, target, Row(t, target).back \ {origin})

\* Cluster::erase(k, state) under ClusterTree::erase: the link column of the
\* row is consulted first, then the links that point at the row are set to
\* null, then the row is removed
consult_link(t, cs, k, target) ==
    IF target = NoLink THEN [t |-> t, cs |-> cs]
    ELSE remove_backlinks(t, cs, k, target)
erase_row(a, k) ==
    [t |-> ClusterTree_erase(nullify_links(a.t, Row(a.t, k).back \ {k}), k), cs |-> a.cs]
erase_object(t, cs, k) == erase_row(consult_link(t, cs, k, Row(t, k).link), k)

\* one round of the loop that empties the CascadeState; an object that is
\* gone when its turn comes is deleted a second time
cascade_step(t, cs) ==
    LET pair == Head(cs.queue)
        cs1 == [cs EXCEPT !.queue = Tail(@), !.deleted = Append(@, pair)]
    IN  IF is_valid(t, t.top.w, pair[2])
        THEN erase_object(t, cs1, pair[2])
        ELSE [t |-> t, cs |-> cs1]

\* ------------------------------------------------------------ observation
\* the ObjKeys stored under a root, cluster by cluster in child order
LeafRefs(t, rootref) ==
    IF t.nodes[rootref].kind = "leaf" THEN <<rootref>> ELSE t.nodes[rootref].kids
LeafOffsets(t, rootref) ==
    IF t.nodes[rootref].kind = "leaf" THEN <<0>> ELSE t.nodes[rootref].offs
LeafKeys(t, rootref, i) ==
    LET n == t.nodes[LeafRefs(t, rootref)[i]]
    IN  [j \in 1..node_size(n) |-> get_key_value(n, j - 1) + LeafOffsets(t, rootref)[i]]
LiveKeys(t, rootref) ==
    UNION {{LeafKeys(t, rootref, i)[j] : j \in DOMAIN LeafKeys(t, rootref, i)} :
               i \in DOMAIN LeafRefs(t, rootref)}
\* what a reader of a root observes: the nodes under it, references resolved
Observed(t, rootref) ==
    IF rootref = NoRef THEN <<>>
    ELSE <<[t.nodes[rootref] EXCEPT !.kids = <<>>]>>
         \o [i \in DOMAIN Kids(t, rootref) |-> t.nodes[Kids(t, rootref)[i]]]
Dirty(t) ==
    Cardinality((LiveKeys(t, t.top.w) \ LiveKeys(t, t.top.c))
                \cup (LiveKeys(t, t.top.c) \ LiveKeys(t, t.top.w)))
TreeRoom(t) == Cardinality(FreeNodes(t)) >= 4
Idle == ~cascade.active

\* ------------------------------------------------------------ tree actions
TreeDone(t, r) ==
    LET c == TreeCollect(t)
    IN  /\ nodes' = c.nodes
        /\ top' = c.top
        /\ ret' = r
        /\ UNCHANGED dvars

\* table.create_object(ObjKey(k)), in a write transaction that differs from
\* the last commit by at most lim keys
CreateObject(k, lim) ==
    /\ Idle
    /\ TreeRoom(CurTree)
    /\ ~is_valid(CurTree, top.w, k)
    /\ LET t1 == ClusterTree_insert(CurTree, k)
       IN  /\ Dirty(t1) <= lim
           /\ TreeDone(t1, [NoRet EXCEPT !.op = "create_object", !.n = k])
    /\ UNCHANGED cascade

\* table.remove_object(ObjKey(k)) of an object that no link leaves or
\* reaches, as one step: the cascade ends with the object itself
RemoveObject(k) ==
    /\ Idle
    /\ TreeRoom(CurTree)
    /\ is_valid(CurTree, top.w, k)
    /\ Row(CurTree, k) = [link |-> NoLink, back |-> {}]
    /\ LET r == cascade_step(CurTree, begin_cascade(k))
       IN  /\ r.cs.queue = <<>>
           /\ Dirty(r.t) <= MaxDirty
           /\ TreeDone(r.t, [NoRet EXCEPT !.op = "remove_object", !.n = k,
                                          !.items = r.cs.deleted])
    /\ UNCHANGED cascade

\* the write transaction commits: its root becomes the committed root.  A
\* reader is followed while it is at most one commit behind.
TreeCommit ==
    /\ Idle
    /\ top.w # top.c
    /\ top.r \in {NoRef, top.c}
    /\ TreeDone([CurTree EXCEPT !.top.c = top.w], [NoRet EXCEPT !.op = "tree_commit"])
    /\ UNCHANGED cascade

\* a reader starts (or advances) a read transaction: it captures the
\* committed root
Capture ==
    /\ top.r # top.c
    /\ TreeDone([CurTree EXCEPT !.top.r = top.c], [NoRet EXCEPT !.op = "capture"])
    /\ UNCHANGED cascade

\* the reader ends its transaction
Release ==
    /\ top.r # NoRef
    /\ TreeDone([CurTree EXCEPT !.top.r = NoRef], [NoRet EXCEPT !.op = "release"])
    /\ UNCHANGED cascade

NextTree ==
    \/ \E k \in ObjKeys : CreateObject(k, MaxDirty)
    \/ \E k \in ObjKeys : RemoveObject(k)
    \/ TreeCommit
    \/ Capture
    \/ Release

SpecTree == Init /\ [][NextTree]_vars

\* ------------------------------------------------------------ cascading erase
\* obj.set(link_col, target) on an object whose link is null
LinkObject(k, target) ==
    /\ Idle
    /\ is_valid(CurTree, top.w, k)
    /\ is_valid(CurTree, top.w, target)
    /\ Row(CurTree, k).link = NoLink
    /\ TreeDone(set_link(CurTree, k, target), [NoRet EXCEPT !.op = "set_link", !.n = k])
    /\ UNCHANGED cascade

\* the erase step at hand meets an object that is queued or processed already
Revisit(t, cs) ==
    LET k == Head(cs.queue)[2]
    IN  /\ is_valid(t, t.top.w, k)
        /\ Row(t, k).link # NoLink
        /\ Row(t, Row(t, k).link).back \ {k} = {}
        /\ <<TheTable, Row(t, k).link>> \in cs.seen

\* table.remove_object(ObjKey(k)) step by step: the call starts with a
\* CascadeState that holds the object,
EraseBegin(k) ==
    /\ Idle
    /\ is_valid(CurTree, top.w, k)
    /\ cascade' = begin_cascade(k)
    /\ ret' = [NoRet EXCEPT !.op = "erase_begin", !.n = k]
    /\ UNCHANGED <<nodes, top>>
    /\ UNCHANGED dvars

\* erases the queued objects one after the other,
CascadeStep ==
    /\ cascade.active
    /\ cascade.queue # <<>>
    /\ LET r == cascade_step(CurTree, cascade)
       IN  /\ TreeDone(r.t, [NoRet EXCEPT !.op = "cascade_step",
                                          !.n = Head(cascade.queue)[2],
                                          !.flag = Revisit(CurTree, cascade)])
           /\ cascade' = r.cs

\* and returns when nothing is queued
EraseEnd ==
    /\ cascade.active
    /\ cascade.queue = <<>>
    /\ cascade' = NoCascade
    /\ ret' = [NoRet EXCEPT !.op = "erase_end", !.items = cascade.deleted]
    /\ UNCHANGED <<nodes, top>>
    /\ UNCHANGED dvars

Linked == 0..MaxLinked
NextCascade ==
    \/ \E k \in Linked : CreateObject(k, MaxLinked + 1)
    \/ \E k, target \in Linked : LinkObject(k, target)
    \/ \E k \in Linked : EraseBegin(k)
    \/ CascadeStep
    \/ EraseEnd

SpecCascade == Init /\ [][NextCascade]_vars

\* ------------------------------------------------------------ observations
\* what begin() .. end() visits through handle h, were it used now
Entries(h) == iterate(Cur, h, Null)
KeySeq(h) == [p \in DOMAIN Entries(h) |-> Entries(h)[p][1]]
KeySet(h) == {Entries(h)[p][1] : p \in DOMAIN Entries(h)}
\* the leaves the handle's accessors are attached to
TreeKeys(h) == tree_data(Cur, hd[h].keys)
TreeValues(h) == tree_data(Cur, hd[h].values)
\* the leaves the dictionary column of the object points to, in view v
SlotKeys(v) == tree_data(Cur, slot[v][KeysNdx])
SlotValues(v) == tree_data(Cur, slot[v][ValuesNdx])
Distinct(seq) == \A i, j \in DOMAIN seq : seq[i] = seq[j] => i = j
Mutations == {"create", "insert", "erase", "index", "assign", "clear"}
Refreshing == {"size", "get", "iterate", "create", "insert", "index", "assign", "clear"}

\* ------------------------------------------------------------ C1
\* C1: copy independence.  A step that mutates a dictionary through one
\* handle leaves what the other of a copy/original pair shows (size, keys,
\* values, iteration order) unchanged.
CopyIndependence ==
    [][\A h, g \in Handles :
          (/\ ret'.op \in Mutations
           /\ ret'.h = h
           /\ Live(g)
           /\ copied[g] = h \/ copied[h] = g)
          => Entries(g)' = Entries(g)]_vars

\* ------------------------------------------------------------ C2
\* C2: every public operation calls update_if_needed() before it first
\* reads or writes a tree: no operation reaches its first tree access
\* through a handle that update_if_needed() would still reload.
RefreshBeforeAccess == ret.unsynced = FALSE

\* ------------------------------------------------------------ C3
\* C3: stale-handle refresh.  An operation that runs update_if_needed()
\* leaves both trees of a handle of an object attached to the object's current
\* child references, with the allocator's version cached; so what a read
\* then returns are the entries the object holds in the reader's snapshot,
\* those of the last commit once the reader has advanced to it.
StaleRefresh ==
    (ret.op \in Refreshing /\ hd[ret.h].view = "a")
    => /\ hd[ret.h].keys = slot.a[KeysNdx]
       /\ hd[ret.h].values = slot.a[ValuesNdx]
       /\ hd[ret.h].cv = version
       /\ ~hd[ret.h].stale
       /\ ret.op = "iterate" =>
             /\ Len(ret.items) = Len(SlotKeys("a"))
             /\ \A p \in DOMAIN ret.items :
                   ret.items[p] = <<SlotKeys("a")[p], SlotValues("a")[p]>>
       /\ ret.op = "size" => ret.n = Len(SlotKeys("a"))

\* a reader's handle, stale after the reader advanced, has been reloaded by
\* an iteration that returned the entries of the later commit
StaleRefreshWitness ==
    /\ ret.op = "iterate"
    /\ ret.reloaded
    /\ wlock = "none"
    /\ slot.a = slot.c
    /\ Len(ret.items) > 0

\* ------------------------------------------------------------ C4
\* C4: size parity.  In every state reached by create, insert, erase,
\* operator[], MixedRef assignment, clear and refresh, the keys tree and the
\* values tree of a dictionary hold the same number of elements, through
\* every handle and in the object's column in every view.
SizeParity ==
    /\ \A h \in Handles :
          Live(h) => /\ Len(TreeKeys(h)) = Len(TreeValues(h))
                     /\ tree_is_attached(hd[h].keys) <=> tree_is_attached(hd[h].values)
    /\ \A v \in DOMAIN slot : Len(SlotKeys(v)) = Len(SlotValues(v))

\* an erase has removed one of two entries
SizeParityWitness ==
    /\ ret.op = "erase"
    /\ Len(TreeKeys(ret.h)) = 1
    /\ Len(TreeValues(ret.h)) = 1
    /\ hd[ret.h].view = "a"

\* ------------------------------------------------------------ C5
\* C5: key uniqueness.  After any sequence of insert, operator[], erase and
\* clear, no two positions of a keys tree hold equal keys.
KeyUniqueness ==
    /\ \A h \in Handles : Live(h) => Distinct(TreeKeys(h))
    /\ \A v \in DOMAIN slot : Distinct(SlotKeys(v))

\* an insert found its key present, in a dictionary of two entries
KeyUniquenessWitness ==
    /\ ret.op = "insert"
    /\ ~ret.flag
    /\ Len(TreeKeys(ret.h)) = 2

\* ------------------------------------------------------------ C6
\* C6: insert(k, v) reports inserted = true exactly when k was not a key
\* immediately before the call; then the size grows by one and the entry
\* <<k, v>> is the one added; otherwise the size and the keys are unchanged
\* and only the value stored for k is replaced, by v.
InsertReport ==
    [][\A h \in Handles : \A k \in Keys :
          (ret'.op = "insert" /\ ret'.h = h /\ ret'.key = k)
          => LET before == Entries(h)
                 after == Entries(h)'
                 v == ret'.val
             IN  /\ ret'.flag <=> k \notin KeySet(h)
                 /\ ret'.flag => after = Append(before, <<k, v>>)
                 /\ ~ret'.flag =>
                       /\ Len(after) = Len(before)
                       /\ \A p \in DOMAIN before :
                             after[p] = IF before[p][1] = k THEN <<k, v>> ELSE before[p]]_vars

\* an insert has replaced a null value by an integer and reported no insertion
InsertReportWitness ==
    /\ ret.op = "insert"
    /\ ~ret.flag
    /\ ret.val # Null
    /\ \E p \in DOMAIN TreeKeys(ret.h) :
          TreeKeys(ret.h)[p] = ret.key /\ TreeValues(ret.h)[p] = ret.val

GetLastStored ==
    [][\A h \in Handles : \A k \in Keys :
          (ret'.op \in {"insert", "erase", "index", "assign"} /\ ret'.h = h)
          => IF ret'.key = k
             THEN ret'.op \in {"insert", "assign"} => get(Cur, h, k, Null)' = ret'.val
             ELSE get(Cur, h, k, Null)' = get(Cur, h, k, Null)]_vars

\* ------------------------------------------------------------ C9
\* C9: get(k) fails with the not-found error exactly when k is not a key of
\* the dictionary, be it that the trees were never created, that it was
\* cleared or that k was erased; and the failing call changes no entry.
GetNotFound ==
    [][\A h \in Handles :
          (ret'.op = "get" /\ ret'.h = h)
          => /\ ret'.out = NotFound <=> ret'.key \notin KeySet(h)
             /\ ret'.out = NotFound => Entries(h)' = Entries(h)
             /\ ret'.out # NotFound =>
                   \E p \in DOMAIN Entries(h) : Entries(h)[p] = <<ret'.key, ret'.out>>]_vars

\* a get has failed on a dictionary whose trees exist and hold another key
GetNotFoundWitness ==
    /\ ret.op = "get"
    /\ ret.out = NotFound
    /\ Len(TreeKeys(ret.h)) = 1
    /\ TreeKeys(ret.h)[1] # ret.key

\* ------------------------------------------------------------ C10
\* C10: erase(k) changes nothing when k is not a key; when it is, exactly
\* the entry of k is removed: the size decreases by one and the remaining
\* entries keep their values and their order.
EraseExact ==
    [][\A h \in Handles :
          (ret'.op = "erase" /\ ret'.h = h)
          => LET before == Entries(h)
                 after == Entries(h)'
                 k == ret'.key
             IN  IF k \notin KeySet(h) THEN after = before
                 ELSE LET p == CHOOSE q \in DOMAIN before : before[q][1] = k
                      IN  after = RemoveAt(before, p - 1)]_vars

\* ------------------------------------------------------------ C11
\* C11: auto-vivification.  Reading dict[k] for a k that is not a key adds
\* the entry <<k, null>> as the last one (the size grows by one) and the
\* reference reads null; for a k that is a key nothing is added and the
\* reference reads the value k has.
AutoVivify ==
    [][\A h \in Handles : \A k \in Keys :
          (ret'.op = "index" /\ ret'.h = h /\ ret'.key = k)
          => LET before == Entries(h)
                 after == Entries(h)'
             IN  /\ ret'.flag <=> k \notin KeySet(h)
                 /\ IF k \notin KeySet(h)
                    THEN /\ after = Append(before, <<k, Null>>)
                         /\ ret'.out = Null
                         /\ ret'.n = Len(before)
                    ELSE /\ after = before
                         /\ before[ret'.n + 1] = <<k, ret'.out>>]_vars

\* a read of dict[k] has added k, with a null value, behind another key
AutoVivifyWitness ==
    /\ ret.op = "index"
    /\ ret.flag
    /\ ret.n = 1
    /\ TreeKeys(ret.h)[2] = ret.key
    /\ TreeValues(ret.h)[2] = Null

\* ------------------------------------------------------------ C12
\* C12: clear() leaves the dictionary with size 0 and every get failing with
\* not-found (Cleared), and keeps the storage: trees that were attached stay
\* attached, in the handle and in the object's column (StorageKept), and an
\* insert right after it succeeds, with no create() by the caller, and
\* yields size 1.
Cleared(h) ==
    /\ size(Cur, h) = 0
    /\ \A k \in Keys : get(Cur, h, k, Null) = NotFound
    /\ (Room(Cur, h) /\ CanCreate(Cur, h))
          => \A k \in Keys : \A v \in Values :
                LET r == insert(Cur, h, k, v)
                IN  /\ r.inserted
                    /\ size(r.st, h) = 1
                    /\ get(r.st, h, k, Null) = v

StorageKept(h) ==
    /\ tree_is_attached(hd[h].keys)
    /\ tree_is_attached(hd[h].values)
    /\ (hd[h].parent /\ hd[h].view = "a")
          => /\ slot.a[KeysNdx] = hd[h].keys
             /\ slot.a[ValuesNdx] = hd[h].values

ClearKeepsStorage ==
    /\ [](ret.op = "clear" => Cleared(ret.h))
    /\ [][\A h \in Handles :
             (/\ ret'.op = "clear"
              /\ ret'.h = h
              /\ tree_is_attached(update_if_needed(Cur, h).hd[h].keys))
             => StorageKept(h)']_vars

\* a clear has emptied a dictionary of two entries, and its trees are attached
ClearKeepsStorageWitness ==
    /\ ret.op = "clear"
    /\ ret.n = 2
    /\ tree_is_attached(hd[ret.h].keys)
    /\ tree_is_attached(hd[ret.h].values)
    /\ Len(TreeKeys(ret.h)) = 0
    /\ Room(Cur, ret.h)

CopyDetached ==
    [][\A g \in Handles :
          (/\ Live(g)
           /\ copied[g] # 0
           /\ hd[copied[g]].parent
           /\ hd[copied[g]].view = "a"
           /\ ret'.h = g)
          => /\ ~ret'.reloaded
             /\ slot' = slot]_vars

\* ------------------------------------------------------------ C15
\* C15: round trip through the anchor.  What a handle of an object holds
\* after a write through it (a write that ran update_if_needed(), see C2) is
\* what the object's dictionary slot holds, keys, values and order; a commit
\* publishes the slot as it is; a transaction that begins or advances sees
\* the last commit; and a handle constructed on the object holds what the
\* slot holds.  So entries written through one handle come back through any
\* handle constructed later and through a handle reloaded after the commit.
TreeEntries(h) == [p \in DOMAIN TreeKeys(h) |-> <<TreeKeys(h)[p], TreeValues(h)[p]>>]
SlotEntries(v) == [p \in DOMAIN SlotKeys(v) |-> <<SlotKeys(v)[p], SlotValues(v)[p]>>]

RoundTrip ==
    /\ []((/\ ret.op \in (Mutations \ {"erase"}) \cup {"construct"}
           /\ hd[ret.h].view = "a")
          => /\ TreeEntries(ret.h) = SlotEntries("a")
             /\ Entries(ret.h) = SlotEntries("a"))
    /\ [][/\ ret'.op = "commit" => /\ SlotEntries("c")' = SlotEntries("a")
                                   /\ SlotEntries("a")' = SlotEntries("a")
          /\ ret'.op \in {"begin_write", "advance_read"}
                => SlotEntries("a")' = SlotEntries("c")]_vars

\* a handle constructed on the object after a commit holds two entries, the
\* second with an integer value
RoundTripWitness ==
    /\ ret.op = "construct"
    /\ hd[ret.h].view = "a"
    /\ wlock = "none"
    /\ Len(TreeKeys(ret.h)) = 2
    /\ TreeValues(ret.h)[2] # Null

\* ------------------------------------------------------------ C16
\* C16: copy-on-write snapshot isolation.  No insert, erase (with the
\* splits, merges and rebalances they cause) or commit of the writer changes
\* what is observed under the root a reader has captured, nor, before the
\* commit, under the committed root; and after a write the writer's root and
\* the cluster of the written key are the writer's own, reached from its root.
WriterOps == {"create_object", "remove_object"}
CascadeVariant == Cardinality(LiveKeys(CurTree, top.w)) + Len(cascade.queue)
CascadeTermination ==
    /\ [](\A i, j \in DOMAIN cascade.deleted :
             i # j => cascade.deleted[i] # cascade.deleted[j])
    /\ [](Len(cascade.deleted) <= MaxLinked + 1)
    /\ [](cascade.active => (cascade.queue = <<>> <=> ENABLED EraseEnd))
    /\ [][ret'.op = "cascade_step" => CascadeVariant' < CascadeVariant]_vars

\* an erase step has met, through a link, an object that was in the
\* CascadeState already, and has not queued it again
CascadeTerminationWitness ==
    /\ ret.op = "cascade_step"
    /\ ret.flag
    /\ cascade.active
    /\ cascade.queue = <<>>
    /\ Len(cascade.deleted) >= 1

\* ------------------------------------------------------------ C18
\* C18: leaf occupancy.  Under every root (the writer's, the committed one,
\* a reader's) that is not a single leaf, every cluster holds at least
\* node_min and at most node_max rows.
Roots == {top.c, top.w, top.r} \ {NoRef}
LeafOccupancy ==
    \A rootref \in Roots :
        nodes[rootref].kind = "inner" =>
            \A i \in DOMAIN nodes[rootref].kids :
                LET sz == node_size(nodes[nodes[rootref].kids[i]])
                IN  node_min <= sz /\ sz <= node_max

\* an erase has just left two clusters under the writer's root, one of
\* them at node_min and one at node_max
LeafOccupancyWitness ==
    /\ ret.op = "remove_object"
    /\ nodes[top.w].kind = "inner"
    /\ Len(nodes[top.w].kids) = 2
    /\ \E i, j \in DOMAIN nodes[top.w].kids :
          /\ node_size(nodes[nodes[top.w].kids[i]]) = node_min
          /\ node_size(nodes[nodes[top.w].kids[j]]) = node_max

\* ------------------------------------------------------------ C19
\* C19: key coverage.  Under every root each stored ObjKey is stored once,
\* each cluster stores keys of its own part of the key space only (from its
\* offset up to the offset of the next cluster), and the keys stored under
\* the writer's root are the live ones: creating an object adds its key and
\* nothing else, removing one removes its key and nothing else, and no
\* other step changes them.
AllLeafKeys(rootref) ==
    LET t == CurTree
        Cat[i \in 0..Len(LeafRefs(t, rootref))] ==
            IF i = 0 THEN <<>> ELSE Cat[i - 1] \o LeafKeys(t, rootref, i)
    IN  Cat[Len(LeafRefs(t, rootref))]
InOwnRange(rootref) ==
    LET t == CurTree
        offs == LeafOffsets(t, rootref)
    IN  \A i \in DOMAIN offs :
            \A j \in DOMAIN LeafKeys(t, rootref, i) :
                /\ offs[i] <= LeafKeys(t, rootref, i)[j]
                /\ i < Len(offs) => LeafKeys(t, rootref, i)[j] < offs[i + 1]
KeyCoverage ==
    /\ [](\A rootref \in Roots :
             /\ \A i, j \in DOMAIN AllLeafKeys(rootref) :
                    i # j => AllLeafKeys(rootref)[i] # AllLeafKeys(rootref)[j]
             /\ InOwnRange(rootref)
             /\ LiveKeys(CurTree, rootref) \subseteq ObjKeys)
    /\ [][/\ ret'.op = "create_object"
                => LiveKeys(CurTree, top.w)' = LiveKeys(CurTree, top.w) \cup {ret'.n}
          /\ ret'.op = "remove_object"
                => LiveKeys(CurTree, top.w)' = LiveKeys(CurTree, top.w) \ {ret'.n}
          /\ ret'.op \notin WriterOps
                => LiveKeys(CurTree, top.w)' = LiveKeys(CurTree, top.w)]_vars

\* six live keys in three clusters, the last one reached by a split
KeyCoverageWitness ==
    /\ ret.op = "create_object"
    /\ nodes[top.w].kind = "inner"
    /\ Len(nodes[top.w].kids) = 3
    /\ LiveKeys(CurTree, top.w) = ObjKeys
    /\ nodes[top.w].offs[3] > ret.n

\* ------------------------------------------------------------ C20
\* C20: sorted leaves.  In every cluster the stored keys increase strictly
\* with the row index: in compact form they are 0..n-1 with no key array
\* attached, in general form the key array is strictly increasing; and every
\* column has one value per key.
Clusters == {r \in NodeRefs : nodes[r].kind = "leaf"}
SortedLeaf ==
    \A r \in Clusters :
        LET n == nodes[r]
        IN  /\ \A i, j \in DOMAIN StoredKeys(n) : i < j => StoredKeys(n)[i] < StoredKeys(n)[j]
            /\ n.compact => n.keys = <<>> /\ get_last_key_value(n) = n.sz - 1
            /\ ~n.compact => n.sz = 0
            /\ Len(n.link) = node_size(n)
            /\ Len(n.back) = node_size(n)
            /\ \A i \in DOMAIN StoredKeys(n) : StoredKeys(n)[i] >= 0

\* an erase has gone through while a cluster in compact form with three
\* rows and a cluster in general form whose keys leave a gap are in use
SortedLeafWitness ==
    /\ ret.op = "remove_object"
    /\ \E r \in Clusters : nodes[r].compact /\ nodes[r].sz = 3
    /\ \E r \in Clusters :
          /\ ~nodes[r].compact
          /\ Len(nodes[r].keys) >= 2
          /\ nodes[r].keys[2] > nodes[r].keys[1] + 1

\* ------------------------------------------------------------ C21
\* the live keys of the writer's tree that sit in a cluster in general form
GeneralKeys ==
    UNION {IF nodes[LeafRefs(CurTree, top.w)[i]].compact
           THEN {}
           ELSE {nodes[LeafRefs(CurTree, top.w)[i]].keys[j]
                     + LeafOffsets(CurTree, top.w)[i] :
                     j \in DOMAIN nodes[LeafRefs(CurTree, top.w)[i]].keys} :
               i \in DOMAIN LeafRefs(CurTree, top.w)}
\* what one operation can make of a cluster: itself, the two sides of a move
\* into a new sibling, and the sibling of a split
LeafOutcomes(n) ==
    {ensure_general_form(n)}
    \cup {adjust_keys(n, d) : d \in {-1, 1}}
    \cup {insert_row(n, lower_bound_key(n, k), k) :
              k \in {x \in ObjKeys : ~has_key(n, x)}}
    \cup {Cluster_insert(n, k).node : k \in {x \in ObjKeys : ~has_key(n, x)}}
    \cup {Cluster_erase(n, k) : k \in {x \in ObjKeys : has_key(n, x)}}
    \cup {Cluster_move(n, i, NewCluster, 0).from : i \in 0..node_size(n)}
    \cup {Cluster_move(n, i, NewCluster, 0).to : i \in 0..node_size(n)}

\* C21: the key form of a leaf moves one way.  A new leaf is in compact form;
\* ensure_general_form and adjust_keys leave any leaf in general form; no
\* operation on a leaf in general form yields a leaf in compact form; and a
\* live key held by a leaf in general form is still held by a leaf in general
\* form after every step in which it stays alive.
OneWayKeyForm ==
    /\ [](/\ NewCluster.compact
          /\ \A r \in Clusters :
                /\ ~ensure_general_form(nodes[r]).compact
                /\ \A d \in {-1, 1} : ~adjust_keys(nodes[r], d).compact
                /\ StoredKeys(ensure_general_form(nodes[r])) = StoredKeys(nodes[r])
                /\ ~nodes[r].compact =>
                      \A m \in LeafOutcomes(nodes[r]) : ~m.compact)
    /\ [][(GeneralKeys \cap LiveKeys(CurTree, top.w)') \subseteq GeneralKeys']_vars

\* an erase has left a leaf in general form with the keys 0 and 1, which
\* compact form could hold, in the writer's tree
OneWayKeyFormWitness ==
    /\ ret.op = "remove_object"
    /\ GeneralKeys # {}
    /\ \E r \in Clusters :
          /\ r \in {top.w} \cup {nodes[top.w].kids[i] : i \in DOMAIN nodes[top.w].kids}
          /\ ~nodes[r].compact
          /\ nodes[r].keys = <<0, 1>>

\* ------------------------------------------------------------ C22
\* the rows of a cluster that hangs at a key offset: real ObjKey (stored key
\* plus offset) and column values, by row index
RealRows(n, offset) ==
    [i \in 1..node_size(n) |->
        [key |-> get_key_value(n, i - 1) + offset, link |-> n.link[i], back |-> n.back[i]]]
SplitOf(n, k) == Cluster_insert(n, k)
RowsOf(k) == Row(CurTree, k)

\* C22: split and move preserve identity.  When an insert overflows node_max
\* the rows of the cluster and of its new right sibling, the sibling's keys
\* taken relative to State::split_key, are the rows the cluster had with the
\* new row in place, in the same order; split_key is the real key of the
\* sibling's first row; move does the same for every index and key
\* adjustment; and a create_object step leaves every object that was there
\* its key, its link and its backlinks.
SplitPreservesRows ==
    /\ [](\A r \in Clusters :
            /\ \A ndx \in 0..node_size(nodes[r]), adj \in 0..MaxKey :
                  RealRows(Cluster_move(nodes[r], ndx, NewCluster, adj).from, 0)
                    \o RealRows(Cluster_move(nodes[r], ndx, NewCluster, adj).to, adj)
                  = RealRows(nodes[r], 0)
            /\ node_size(nodes[r]) = node_max =>
                  \A k \in {x \in ObjKeys : ~has_key(nodes[r], x)} :
                      /\ SplitOf(nodes[r], k).split
                      /\ RealRows(SplitOf(nodes[r], k).sibling, SplitOf(nodes[r], k).split_key)[1].key
                            = SplitOf(nodes[r], k).split_key
                      /\ RealRows(SplitOf(nodes[r], k).node, 0)
                            \o RealRows(SplitOf(nodes[r], k).sibling, SplitOf(nodes[r], k).split_key)
                          = RealRows(insert_row(nodes[r], lower_bound_key(nodes[r], k), k), 0))
    /\ [][ret'.op = "create_object" =>
              /\ LiveKeys(CurTree, top.w)' = LiveKeys(CurTree, top.w) \cup {ret'.n}
              /\ \A k \in LiveKeys(CurTree, top.w) : RowsOf(k)' = RowsOf(k)]_vars

\* a fourth object has been created and the tree has split in two clusters
\* of two rows; a row of the new sibling carries a link and a backlink
SplitPreservesRowsWitness ==
    /\ ret.op = "create_object"
    /\ nodes[top.w].kind = "inner"
    /\ Len(nodes[top.w].kids) = 2
    /\ nodes[top.w].offs[2] > 0
    /\ Len(nodes[nodes[top.w].kids[1]].link) = 2
    /\ Len(nodes[nodes[top.w].kids[2]].link) = 2
    /\ \E i \in 1..2 :
          /\ nodes[nodes[top.w].kids[2]].link[i] # NoLink
          /\ nodes[nodes[top.w].kids[2]].back[i] # {}

\* ------------------------------------------------------------ C23
\* the handle is attached to the trees its object's column points to
Anchored(h) ==
    /\ hd[h].keys = slot[hd[h].view][2 * get_row_ndx]
    /\ hd[h].values = slot[hd[h].view][2 * get_row_ndx + 1]
OfObject(h) == Live(h) /\ hd[h].parent /\ hd[h].view # "u"
\* the handle of the last operation
LastAnchored == Anchored(ret.h)
LastView == hd[ret.h].view

Creating == {"create", "insert", "index", "assign"}
HandleOps == Refreshing \cup {"erase", "equal"}
\* what the handle of the last operation shows
CreatedEntries == Entries(ret.h)
CreatedAttached == tree_is_attached(hd[ret.h].keys)

\* C24: lazy creation.  The trees of a dictionary are there together or not
\* at all, in the object's column and in every handle; through a handle
\* only create(), insert() and operator[] bring them into being (a handle
\* may also attach, by reloading, to trees another call created); and
\* create() changes no entry, so that a second create() changes nothing.
LazyCreation ==
    /\ [](/\ \A v \in DOMAIN slot : (slot[v][KeysNdx] = NoRef) <=> (slot[v][ValuesNdx] = NoRef)
          /\ \A h \in Handles : (hd[h].keys = NoRef) <=> (hd[h].values = NoRef)
          /\ \A h \in Handles :
                (Writer(h) /\ Room(update_if_needed(Cur, h), h) /\ CanCreate(Cur, h)) =>
                    /\ tree_is_attached(create(Cur, h).hd[h].keys)
                    /\ tree_is_attached(create(Cur, h).hd[h].values)
                    /\ create(create(Cur, h), h) = create(Cur, h))
    /\ [][/\ (ret'.op \in HandleOps /\ ret'.op \notin Creating) =>
                /\ \A v \in DOMAIN slot :
                      slot[v][KeysNdx] = NoRef => slot'[v][KeysNdx] = NoRef
                /\ (~ret'.reloaded /\ ~tree_is_attached(hd[ret'.h].keys))
                      => ~CreatedAttached'
          /\ ret'.op = "create" =>
                /\ CreatedAttached'
                /\ CreatedEntries' = Entries(ret'.h)]_vars

\* create() has returned on a dictionary that held an entry already
LazyCreationWitness ==
    /\ ret.op = "create"
    /\ ~ret.reloaded
    /\ Len(CreatedEntries) >= 1

\* ------------------------------------------------------------ C25
\* the entries with the value of key k set to v, k added last if it is new
Assigned(entries, k, v) ==
    IF \E p \in DOMAIN entries : entries[p][1] = k
    THEN [p \in DOMAIN entries |-> IF entries[p][1] = k THEN <<k, v>> ELSE entries[p]]
    ELSE Append(entries, <<k, v>>)
\* get(k) through a handle just constructed on the object's column in view v
FreshGet(v, k) ==
    IF FirstIndex(SlotKeys(v), k, 1) = npos THEN NotFound
    ELSE SlotValues(v)[FirstIndex(SlotKeys(v), k, 1) + 1]

InsertIterator ==
    ret.op = "insert" =>
        /\ ret.n >= 0
        /\ ret.n < tree_size(Cur, hd[ret.h].keys)
        /\ \A u \in Values : deref(Cur, ret.h, ret.n, u) = <<ret.key, ret.val>>

\* an insert has overwritten the value of the first of two keys; its
\* iterator stands at position 0
InsertIteratorWitness ==
    /\ ret.op = "insert"
    /\ ~ret.flag
    /\ ret.n = 0
    /\ tree_size(Cur, hd[ret.h].keys) = 2
    /\ deref(Cur, ret.h, 0, Null) = <<ret.key, ret.val>>
    /\ deref(Cur, ret.h, 1, Null) # <<ret.key, ret.val>>

\* ------------------------------------------------------------ C27
\* C27: is_attached() answers true exactly when the trees of the dictionary
\* are attached, that is after create() or a first insert and before
\* destroy(), and false when they were never created or have been destroyed.
AttachedReport ==
    /\ ret.op = "is_attached" =>
          (ret.flag <=> (/\ tree_is_attached(hd[ret.h].keys)
                         /\ tree_is_attached(hd[ret.h].values)))
    /\ ret.op \in {"create", "insert"} => is_attached(Cur, ret.h)
    /\ ret.op = "destroy" => ~is_attached(Cur, ret.h)

\* ------------------------------------------------------------ C28
\* the positions a traversal through h stands at before it meets end()
Visited(h) == {p \in begin(Cur, h)..MaxRef : \A q \in begin(Cur, h)..p : q # end(Cur, h)}

VersionStamp ==
    /\ [](/\ \A h \in Handles :
                Live(h) =>
                    /\ update_if_needed(Cur, h).hd[h].cv = AllocVersion(Cur, h)
                    /\ ~Unsynced(update_if_needed(Cur, h), h)
                    /\ update_if_needed(update_if_needed(Cur, h), h) = update_if_needed(Cur, h)
                    /\ (~obj_update_if_needed(Cur, h) /\ hd[h].cv = AllocVersion(Cur, h))
                          => update_if_needed(Cur, h) = Cur
          /\ ret.op \in Refreshing => hd[ret.h].cv = AllocVersion(Cur, ret.h))
    /\ [][(ret'.op = "size" /\ ~ret'.reloaded) => UNCHANGED <<heap, slot, hd>>]_vars

\* size() has reloaded a handle whose cached version was behind, and the
\* handle holds the current version
VersionStampWitness ==
    /\ ret.op = "size"
    /\ ret.reloaded
    /\ version = MaxVersion
    /\ hd[ret.h].cv = version
    /\ ret.n >= 1

\* ------------------------------------------------------------ C30
\* the keys a cluster is asked for: those of the table, and some below and
\* above them
ProbeKeys == (0 - 2)..(MaxKey + 1)
\* how many stored keys of the cluster are below the key
Below(n, key) == Cardinality({j \in DOMAIN StoredKeys(n) : StoredKeys(n)[j] < key})
BelowUnsigned(n, key) ==
    Cardinality({j \in DOMAIN StoredKeys(n) : to_uint64(StoredKeys(n)[j]) < to_uint64(key)})
InCompactForm(n, key) ==
    IF key < 0 THEN 0 ELSE IF key > node_size(n) THEN node_size(n) ELSE key

\* C30: lower_bound_key(key) is an index in 0..node_size().  For a key that
\* is not negative it is the number of stored keys below the key, in both
\* forms.  In compact form it is 0 for a negative key, node_size() for a key
\* above node_size() and the key itself otherwise.  In general form it is the
\* lower bound, in the sorted key array, of the key converted to uint64_t:
\* the number of stored keys below it as unsigned values, which for a
\* negative key is node_size().
LowerBoundKey ==
    \A r \in Clusters : \A key \in ProbeKeys :
        /\ lower_bound_key(nodes[r], key) \in 0..node_size(nodes[r])
        /\ key >= 0 => lower_bound_key(nodes[r], key) = Below(nodes[r], key)
        /\ nodes[r].compact =>
              lower_bound_key(nodes[r], key) = InCompactForm(nodes[r], key)
        /\ ~nodes[r].compact =>
              /\ lower_bound_key(nodes[r], key) = BelowUnsigned(nodes[r], key)
              /\ key < 0 => lower_bound_key(nodes[r], key) = node_size(nodes[r])

\* C30 as stated: lower_bound_key(key) is an index in 0..node_size(), the
\* number of stored keys below the key, whatever the key and the form.
LowerBoundKeyCount ==
    \A r \in Clusters : \A key \in ProbeKeys :
        /\ lower_bound_key(nodes[r], key) \in 0..node_size(nodes[r])
        /\ lower_bound_key(nodes[r], key) = Below(nodes[r], key)
        /\ nodes[r].compact =>
              lower_bound_key(nodes[r], key) = InCompactForm(nodes[r], key)

\* a cluster in general form holds three keys with a gap: the lower bound of
\* its second key is 1, that of the key in the gap is the row after the gap,
\* and that of a negative key is 3
LowerBoundKeyWitness ==
    /\ ret.op = "create_object"
    /\ \E r \in Clusters :
          /\ ~nodes[r].compact
          /\ Len(nodes[r].keys) = 3
          /\ nodes[r].keys[3] > nodes[r].keys[2] + 1
          /\ lower_bound_key(nodes[r], nodes[r].keys[2]) = 1
          /\ lower_bound_key(nodes[r], nodes[r].keys[2] + 1) = 2
          /\ lower_bound_key(nodes[r], 0 - 1) = 3

====
